---- MODULE Spec2Model ----
(***************************************************************************)
(* Model of lib/spdy/server.js: the protocol detection and connection      *)
(* bootstrap layer of the server.  One server is constructed (_init) and   *)
(* one connection is accepted and followed through negotiation or          *)
(* sniffing, dispatch to the saved default listeners or session bootstrap. *)
(*                                                                         *)
(* Strings of the program are modelled as tuples of one-character strings, *)
(* so that the regular expression test and the string comparisons of the   *)
(* source are computed and not assumed.  The empty tuple stands for the    *)
(* falsy values undefined / null / false of the source.                    *)
(***************************************************************************)
EXTENDS Integers, Sequences, FiniteSets, TLC

VARIABLES
  phase,            \* "new" | "ready" | "failed": where the constructor is
  args,             \* the constructor's inputs: base class and options.spdy
  serverListeners,  \* the listeners registered on the server's connection event
  state,            \* this._spdyState
  conn,             \* the accepted connection and everything done with it
  server,           \* the server's own fields and its 'request' listeners
  engine,           \* what the session engine knows of the connection's session
  streams,          \* the logical streams announced, with their adapters
  requests          \* what emit has done with the raw socket's request

vars == <<phase, args, serverListeners, state, conn,
          server, engine, streams, requests>>

\* everything past the dispatch of the connection
streamVars == <<server, engine, streams, requests>>

----------------------------------------------------------------------------
(* Bounds of the model.                                                    *)

\* longest run of arbitrary bytes that follows the matched bytes in one write
MaxTail == 2
\* most invocations of the sniffer on one connection
MaxFilterCalls == 2
\* most logical streams announced by one session
MaxStreams == 2

----------------------------------------------------------------------------
(* Strings.                                                                *)

Undefined == << >>

H2      == <<"h", "2">>
SPDY31  == <<"s", "p", "d", "y", "/", "3", ".", "1">>
SPDY3   == <<"s", "p", "d", "y", "/", "3">>
SPDY2   == <<"s", "p", "d", "y", "/", "2">>
HTTP11  == <<"h", "t", "t", "p", "/", "1", ".", "1">>
HTTP10  == <<"h", "t", "t", "p", "/", "1", ".", "0">>
SPDY    == <<"s", "p", "d", "y">>
HTTP2   == <<"h", "t", "t", "p", "2">>
H2_14   == <<"h", "2", "-", "1", "4">>

\* the identifiers a connection can be resolved to in the model: the default
\* protocol list of _init, the sniffer's labels, the literal the version
\* switch compares with, and one identifier outside all of them
Identifiers == {H2, SPDY31, SPDY3, SPDY2, HTTP11, HTTP10, SPDY, HTTP2, H2_14}

\* a || b
Or(a, b) == IF a # Undefined THEN a ELSE b

\* /spdy/.test(protocol): the pattern occurs somewhere in the string
RegexSpdyTest(protocol) ==
  \E i \in 1..Len(protocol) :
    /\ i + 3 <= Len(protocol)
    /\ SubSeq(protocol, i, i + 3) = SPDY

----------------------------------------------------------------------------
(* The prefix sniffer.                                                     *)

SPDY_MARKER == 128

PREFACE_BUFFER ==
  <<80, 82, 73, 32, 42, 32, 72, 84, 84, 80, 47, 50, 46, 48, 13, 10,
    13, 10, 83, 77, 13, 10, 13, 10>>

Min(a, b) == IF a < b THEN a ELSE b

\* hoseFilter reporting the preface as soon as all available bytes match
hoseFilter_Eager(data) ==
  IF Len(data) < 1 THEN Undefined
  ELSE IF data[1] = SPDY_MARKER THEN SPDY
  ELSE LET avail == Min(Len(data), Len(PREFACE_BUFFER)) IN
       IF \E i \in 1..avail : data[i] # PREFACE_BUFFER[i] THEN HTTP11
       ELSE H2

\* hoseFilter knowing the marker only when it is the one byte received
hoseFilter_MarkerAlone(data) ==
  IF Len(data) < 1 THEN Undefined
  ELSE IF Len(data) = 1 /\ data[1] = SPDY_MARKER THEN SPDY
  ELSE LET avail == Min(Len(data), Len(PREFACE_BUFFER)) IN
       IF \E i \in 1..avail : data[i] # PREFACE_BUFFER[i] THEN HTTP11
       ELSE IF avail # Len(PREFACE_BUFFER) THEN Undefined
       ELSE H2

\* hoseFilter waiting for a preface's worth of bytes before it compares
hoseFilter_WaitsForLength(data) ==
  IF Len(data) < 1 THEN Undefined
  ELSE IF data[1] = SPDY_MARKER THEN SPDY
  ELSE IF Len(data) < Len(PREFACE_BUFFER) THEN Undefined
  ELSE IF \E i \in 1..Len(PREFACE_BUFFER) : data[i] # PREFACE_BUFFER[i]
         THEN HTTP11
         ELSE H2

\* hoseFilter testing the buffer's length where it should test avail
hoseFilter_ExactLength(data) ==
  IF Len(data) < 1 THEN Undefined
  ELSE IF data[1] = SPDY_MARKER THEN SPDY
  ELSE LET avail == Min(Len(data), Len(PREFACE_BUFFER)) IN
       IF \E i \in 1..avail : data[i] # PREFACE_BUFFER[i] THEN HTTP11
       ELSE IF Len(data) # Len(PREFACE_BUFFER) THEN Undefined
       ELSE H2

\* hoseFilter looking for the marker in every byte received
hoseFilter_MarkerAnywhere(data) ==
  IF Len(data) < 1 THEN Undefined
  ELSE IF \E i \in 1..Len(data) : data[i] = SPDY_MARKER THEN SPDY
  ELSE LET avail == Min(Len(data), Len(PREFACE_BUFFER)) IN
       IF \E i \in 1..avail : data[i] # PREFACE_BUFFER[i] THEN HTTP11
       ELSE IF avail # Len(PREFACE_BUFFER) THEN Undefined
       ELSE H2

\* the value hoseFilter passes to its callback as the protocol
hoseFilter(data) ==
  IF Len(data) < 1 THEN Undefined
  ELSE IF data[1] = SPDY_MARKER THEN SPDY
  ELSE LET avail == Min(Len(data), Len(PREFACE_BUFFER)) IN
       IF \E i \in 1..avail : data[i] # PREFACE_BUFFER[i] THEN HTTP11
       ELSE IF avail # Len(PREFACE_BUFFER) THEN Undefined
       ELSE H2

----------------------------------------------------------------------------
(* Inputs.                                                                 *)

\* the default listeners the base class registered on its connection event
\* before _init looks at them (a base without any is the configuration error)
BaseListeners == {<< >>, <<"L1">>, <<"L2", "L1">>}

\* options.spdy.protocol
DefaultProtocols == {Undefined, SPDY31, HTTP11}

\* options.spdy.connection: options handed on to the session engine.  The
\* options exercised are tuning options of the engine; the keys the server
\* sets itself (protocol, isServer) are not among them.
ConnectionOptions == {Undefined, [autoSpdy31 |-> TRUE]}

\* socket.npnProtocol and socket.alpnProtocol of a TLS socket
NpnResults  == {Undefined} \cup Identifiers
AlpnResults == {Undefined, SPDY2}

\* bytes that follow the matched preface bytes in a write: the marker and 'G'
TailBytes == {SPDY_MARKER, 71}

Tails == UNION {[1..n -> TailBytes] : n \in 0..MaxTail}

\* the writes a client can make once `matched` preface bytes have arrived:
\* the next n bytes of the preface followed by a tail
Chunks(matched) ==
  {SubSeq(PREFACE_BUFFER, matched + 1, matched + n) \o t :
     n \in 0..(Len(PREFACE_BUFFER) - matched), t \in Tails}

----------------------------------------------------------------------------
(* Objects.                                                                *)

EmptyObject == << >>

\* util._extend(target, source): source's keys are copied onto target
Extend(target, source) ==
  [k \in DOMAIN target \cup DOMAIN source |->
     IF k \in DOMAIN source THEN source[k] ELSE target[k]]

\* the raw socket as an argument of a listener
RawSocket == "raw"

NoConnection ==
  [status    |-> "none",
   socket    |-> [npnProtocol |-> Undefined, alpnProtocol |-> Undefined],
   hose      |-> "none",
   buffer    |-> << >>,
   labels    |-> << >>,
   handled   |-> << >>,
   invoked   |-> << >>,
   sessions  |-> << >>,
   destroyed |-> FALSE]

\* an accepted connection nothing has been done with yet
Accepted(socket) == [NoConnection EXCEPT !.status = "open", !.socket = socket]

\* the sockets the connection event can carry: only a TLS socket has
\* next-protocol results
Sockets ==
  {[npnProtocol |-> n, alpnProtocol |-> a] :
     n \in (IF args.secure THEN NpnResults ELSE {Undefined}),
     a \in (IF args.secure THEN AlpnResults ELSE {Undefined})}

\* a request/response pair as the HTTP layer makes it, nothing emitted yet:
\* the response has the HTTP methods and no push
NoRequest ==
  [emitted     |-> FALSE,
   isSpdy      |-> "unset",
   spdyVersion |-> "unset",
   res         |-> [writeHead |-> "http", end |-> "http", push |-> "none"],
   heard       |-> << >>]

\* the request of the raw socket and the events other than 'request'
NoRequests == [raw |-> NoRequest, others |-> << >>]

\* the session engine before any session: no version, no error
NoEngine == [version |-> "unset", errored |-> FALSE]

\* the server object before _init: handler is the constructor's argument
NewServer(handler) ==
  [handler           |-> handler,
   httpAllowHalfOpen |-> FALSE,
   requestListeners  |-> << >>]

----------------------------------------------------------------------------
(* Construction.                                                           *)

Init ==
  /\ phase = "new"
  /\ args \in [secure     : BOOLEAN,
               listeners  : BaseListeners,
               plain      : BOOLEAN,
               protocol   : DefaultProtocols,
               connection : ConnectionOptions]
  /\ serverListeners = args.listeners
  /\ state = [options   |-> [plain |-> FALSE, protocol |-> Undefined,
                             connection |-> Undefined],
              secure    |-> FALSE,
              listeners |-> << >>]
  /\ conn = NoConnection
  /\ server = NewServer(TRUE)
  /\ engine = NoEngine
  /\ streams = << >>
  /\ requests = NoRequests

\* _init adding its dispatcher without removing the default listeners
_init_KeepsListeners ==
  /\ phase = "new"
  /\ state' = [options   |-> [plain      |-> args.plain,
                              protocol   |-> args.protocol,
                              connection |-> args.connection],
               secure    |-> args.secure,
               listeners |-> serverListeners]
  /\ IF Len(serverListeners) > 0
       THEN /\ serverListeners' =
                 Append(serverListeners,
                        IF args.plain THEN "_onPlainConnection"
                                      ELSE "_onConnection")
            /\ server' = [server EXCEPT !.httpAllowHalfOpen = TRUE]
            /\ phase' = "ready"
       ELSE /\ phase' = "failed"
            /\ server' = [server EXCEPT !.httpAllowHalfOpen = TRUE]
            /\ UNCHANGED serverListeners
  /\ UNCHANGED <<args, conn, engine, streams, requests>>

\* new Server(options, handler): the assertion throws out of the constructor
\* before the listeners are replaced
_init ==
  /\ phase = "new"
  /\ state' = [options   |-> [plain      |-> args.plain,
                              protocol   |-> args.protocol,
                              connection |-> args.connection],
               secure    |-> args.secure,
               listeners |-> serverListeners]
  /\ IF Len(serverListeners) > 0
       THEN /\ serverListeners' =
                 IF args.plain THEN <<"_onPlainConnection">>
                               ELSE <<"_onConnection">>
            /\ server' = [server EXCEPT
                            !.httpAllowHalfOpen = TRUE,
                            !.requestListeners =
                               IF server.handler THEN Append(@, "handler")
                                                 ELSE @]
            /\ phase' = "ready"
       ELSE /\ phase' = "failed"
            /\ server' = [server EXCEPT !.httpAllowHalfOpen = TRUE]
            /\ UNCHANGED serverListeners
  /\ UNCHANGED <<args, conn, engine, streams, requests>>

----------------------------------------------------------------------------
(* Dispatch of an accepted connection.                                     *)

\* _invokeDefault walking the saved listeners from the last to the first
_invokeDefault_Reversed(c, socket) ==
  [c EXCEPT !.invoked =
     @ \o [i \in 1..Len(state.listeners) |->
             [listener |-> state.listeners[Len(state.listeners) + 1 - i],
              socket   |-> socket]]]

\* _invokeDefault(socket): every saved listener is called with the socket,
\* in the order they were saved
_invokeDefault(c, socket) ==
  [c EXCEPT !.invoked =
     @ \o [i \in 1..Len(state.listeners) |->
             [listener |-> state.listeners[i], socket |-> socket]]]

\* the configured default taking precedence over the given protocol
Resolve_DefaultFirst(protocol) == Or(state.options.protocol, protocol)

\* the configured default never consulted
Resolve_NoDefault(protocol) == protocol

\* if (!protocol) protocol = state.options.protocol
Resolve(protocol) ==
  IF protocol = Undefined THEN state.options.protocol ELSE protocol

\* only identifiers of the two multiplexed families kept from the default
\* listeners
ToDefaultHandler_Unrecognized(protocol) ==
  ~(protocol # Undefined /\ (RegexSpdyTest(protocol) \/ protocol = H2))

\* the test that sends the socket to the default listeners
ToDefaultHandler(protocol) ==
  protocol = Undefined \/ protocol = HTTP11 \/ protocol = HTTP10

\* the protocol option given to transport.connection.create
Family(protocol) == IF RegexSpdyTest(protocol) THEN SPDY ELSE HTTP2

\* the version switch losing the minor version of spdy/3.1
StartCalls_NoMinor(protocol) ==
  IF protocol = HTTP2 THEN <<"4">>
  ELSE IF protocol = SPDY31 \/ protocol = SPDY3 THEN <<"3">>
  ELSE IF protocol = SPDY2 THEN <<"2">>
  ELSE << >>

\* the connection.start calls of "Set version when we are certain"
StartCalls(protocol) ==
  IF protocol = HTTP2 THEN <<"4">>
  ELSE IF protocol = SPDY31 THEN <<"3.1">>
  ELSE IF protocol = SPDY3 THEN <<"3">>
  ELSE IF protocol = SPDY2 THEN <<"2">>
  ELSE << >>

\* transport.connection.create(socket, options), the version pin and the two
\* observers registered on the new connection
CreateSession(socket, protocol) ==
  [socket   |-> socket,
   options  |-> Extend([protocol |-> Family(protocol), isServer |-> TRUE],
                       Or(state.options.connection, EmptyObject)),
   started  |-> StartCalls(protocol),
   onError  |-> TRUE,
   onStream |-> TRUE]

\* _handleConnection giving the socket to the default listeners and going on
\* to create the session as well
_handleConnection_Both(c, socket, negotiated) ==
  LET protocol == Resolve(negotiated)
      seen     == [c EXCEPT !.handled = Append(@, protocol)]
  IN  IF ToDefaultHandler(protocol)
        THEN _invokeDefault(seen, socket)
        ELSE [_invokeDefault(seen, socket) EXCEPT
                !.sessions = Append(@, CreateSession(socket, protocol))]

\* _handleConnection(socket, protocol): the connection as it is left
_handleConnection(c, socket, negotiated) ==
  LET protocol == Resolve(negotiated)
      seen     == [c EXCEPT !.handled = Append(@, protocol)]
  IN  IF ToDefaultHandler(protocol)
        THEN _invokeDefault(seen, socket)
        ELSE [seen EXCEPT !.sessions = Append(@, CreateSession(socket, protocol))]

\* the protocol _onConnection reads off the socket
Negotiated(socket) ==
  IF state.secure THEN Or(socket.npnProtocol, socket.alpnProtocol)
  ELSE Undefined

\* the connection event of a server whose dispatcher is _onConnection
_onConnection(socket) ==
  /\ phase = "ready"
  /\ serverListeners = <<"_onConnection">>
  /\ conn.status = "none"
  /\ conn' = _handleConnection(Accepted(socket), RawSocket, Negotiated(socket))
  /\ UNCHANGED <<phase, args, serverListeners, state, streamVars>>

\* the connection event of a server whose dispatcher is _onPlainConnection:
\* a hose is created on the socket with hoseFilter as its filter
_onPlainConnection(socket) ==
  /\ phase = "ready"
  /\ serverListeners = <<"_onPlainConnection">>
  /\ conn.status = "none"
  /\ conn' = [Accepted(socket) EXCEPT !.hose = "attached"]
  /\ UNCHANGED <<phase, args, serverListeners, state, streamVars>>

\* a hose that emits 'select' on every answer of the filter, null included
HoseData_Impatient(c, chunk) ==
  LET data     == c.buffer \o chunk
      protocol == hoseFilter(data)
      sniffed  == [c EXCEPT !.buffer = data, !.labels = Append(@, protocol)]
  IN  _handleConnection([sniffed EXCEPT !.hose = "detached"],
                        RawSocket, protocol)

\* the hose's step on a write: the filter is given everything received so
\* far; no label leaves the hose waiting, a label makes it emit 'select',
\* whose listener hands the socket to _handleConnection
HoseData(c, chunk) ==
  LET data     == c.buffer \o chunk
      protocol == hoseFilter(data)
      sniffed  == [c EXCEPT !.buffer = data, !.labels = Append(@, protocol)]
  IN  IF protocol = Undefined
        THEN sniffed
        ELSE _handleConnection([sniffed EXCEPT !.hose = "detached"],
                               RawSocket, protocol)

\* the client writes a chunk.  With a hose attached the hose runs; without
\* one (the dispatcher was _onConnection) the bytes reach whoever was given
\* the socket and are only recorded.
SocketData(chunk) ==
  /\ conn.status = "open"
  /\ ~conn.destroyed
  /\ \/ /\ conn.hose = "attached"
        /\ Len(conn.labels) < MaxFilterCalls
        /\ conn' = HoseData(conn, chunk)
     \/ /\ conn.hose = "none"
        /\ conn.buffer = << >>
        /\ chunk # << >>
        /\ conn' = [conn EXCEPT !.buffer = chunk]
  /\ UNCHANGED <<phase, args, serverListeners, state, streamVars>>

\* the hose's 'error' event (the socket failed or ended before a label was
\* found): the socket is destroyed
HoseError ==
  /\ conn.status = "open"
  /\ conn.hose = "attached"
  /\ ~conn.destroyed
  /\ conn' = [conn EXCEPT !.hose = "detached", !.destroyed = TRUE]
  /\ UNCHANGED <<phase, args, serverListeners, state, streamVars>>

\* an 'error' listener that leaves the socket as it is
OnSessionError_Ignores(c) == c

\* the listener _handleConnection registers for the session's 'error'
OnSessionError(c) == [c EXCEPT !.destroyed = TRUE]

\* the session's 'error' event: the socket is destroyed
SessionError ==
  /\ conn.status = "open"
  /\ Len(conn.sessions) > 0
  /\ conn.sessions[1].onError
  /\ ~conn.destroyed
  /\ conn' = OnSessionError(conn)
  /\ engine' = [engine EXCEPT !.errored = TRUE]
  /\ UNCHANGED <<phase, args, serverListeners, state, server, streams, requests>>

----------------------------------------------------------------------------
(* Logical streams and their adapters.                                     *)

\* spdy.handle.create(stream)
SpdyHandle(id) == [type |-> "spdy.handle", stream |-> id]

\* the handle of a raw socket
TcpHandle == [type |-> "TCP", stream |-> 0]

\* new net.Socket({ handle: handle, allowHalfOpen: allowHalfOpen })
NewSocket(handle, allowHalfOpen) ==
  [_handle       |-> handle,
   allowHalfOpen |-> allowHalfOpen,
   encrypted     |-> FALSE,
   readable      |-> FALSE,
   writable      |-> FALSE]

\* the adapter socket handed over as the socket constructor left it
AdapterSocket_Bare(id) == NewSocket(SpdyHandle(id), TRUE)

\* the adapter socket _onStream makes for a stream, as it is when it is
\* handed to the default listeners
AdapterSocket(id) ==
  [NewSocket(SpdyHandle(id), TRUE) EXCEPT
     !.encrypted = TRUE, !.readable = TRUE, !.writable = TRUE]

\* a stream the session announces: its first bytes are held by its handle
NewStream(id) ==
  [id          |-> id,
   socket      |-> NewSocket(TcpHandle, FALSE),
   assigned    |-> FALSE,
   invoked     |-> << >>,
   initial     |-> "held",
   readyAfter  |-> -1,
   bound       |-> [req |-> -1, res |-> -1],
   request     |-> NoRequest,
   live        |-> TRUE,
   endedEarly  |-> FALSE,
   teardowns   |-> 0,
   written     |-> FALSE,
   lateWritten |-> FALSE]

\* handle.emitRequest(): the handle lets the stream's held bytes flow to
\* the socket; they reach the listeners the socket has been given to, and
\* are lost when it has been given to none
emitRequest(s) ==
  [s EXCEPT !.initial    = IF s.invoked # << >> THEN "seen" ELSE "lost",
            !.readyAfter = Len(s.invoked)]

\* _onStream telling the handle before it hands the adapter over
OnStream_EmitFirst(id) ==
  LET socket  == AdapterSocket(id)
      adapted == [NewStream(id) EXCEPT !.socket = socket, !.assigned = TRUE]
  IN  _invokeDefault(emitRequest(adapted), socket)

\* _onStream(stream): the stream as the handler leaves it
OnStream(id) ==
  LET socket  == AdapterSocket(id)
      adapted == [NewStream(id) EXCEPT !.socket = socket, !.assigned = TRUE]
  IN  emitRequest(_invokeDefault(adapted, socket))

\* the version connection.getVersion() reports: the pinned one, or the one
\* the engine settles on from the wire before it announces a stream
EngineVersions ==
  IF engine.version # "unset" THEN {engine.version}
  ELSE IF conn.sessions[1].started # << >>
         THEN {conn.sessions[1].started[Len(conn.sessions[1].started)]}
  ELSE IF conn.sessions[1].options.protocol = HTTP2 THEN {"4"}
  ELSE {"3.1", "2"}

\* the session's 'stream' event
_onStream ==
  /\ conn.status = "open"
  /\ ~conn.destroyed
  /\ Len(conn.sessions) > 0
  /\ conn.sessions[1].onStream
  /\ Len(streams) < MaxStreams
  /\ \E v \in EngineVersions : engine' = [engine EXCEPT !.version = v]
  /\ streams' = Append(streams, OnStream(Len(streams) + 1))
  /\ UNCHANGED <<phase, args, serverListeners, state, conn, server, requests>>

----------------------------------------------------------------------------
(* The request/response shim.  A request is named by the socket it came    *)
(* on: 0 for the raw socket, i for the adapter of stream i.                *)

\* req.socket._handle
SocketHandle(source) ==
  IF source = 0 THEN TcpHandle ELSE streams[source].socket._handle

\* handle instanceof spdy.handle
IsSpdyHandle(handle) == handle.type = "spdy.handle"

\* the request/response pair the HTTP layer made on the socket
RequestOf(source) ==
  IF source = 0 THEN requests.raw ELSE streams[source].request

\* the handle taken from the session's first stream
HandleFor_First(source) == 1

\* var handle = req.connection._handle: the stream whose handle it is
HandleFor(source) == SocketHandle(source).stream

\* EventEmitter.prototype.emit: every 'request' listener is called with the
\* pair as it is at that moment; binding is what the pair's handle holds
Deliver(req, binding) ==
  [req EXCEPT
     !.emitted = TRUE,
     !.heard = @ \o [i \in 1..Len(server.requestListeners) |->
                       [listener    |-> server.requestListeners[i],
                        isSpdy      |-> req.isSpdy,
                        spdyVersion |-> req.spdyVersion,
                        res         |-> req.res,
                        binding     |-> binding]]]

\* the not-spdy branch forgetting the version
MarkNotSpdy_NoVersion(req) == [req EXCEPT !.isSpdy = "false"]

\* the branch of emit for a request whose socket has no stream handle
MarkNotSpdy(req) == [req EXCEPT !.isSpdy = "false", !.spdyVersion = "1"]

\* the branch of emit for a request on an adapter: the marks and the
\* replaced response methods
MarkSpdy(req) ==
  [req EXCEPT
     !.isSpdy      = "true",
     !.spdyVersion = engine.version,
     !.res         = [writeHead |-> "spdy.response", end |-> "spdy.response",
                      push |-> "spdy.response"]]

\* handle.assignRequest(req); handle.assignResponse(res)
Assign(s, source) == [s EXCEPT !.bound = [req |-> source, res |-> source]]

\* emit('request', req, res): the streams and requests as emit leaves them
EmitRequest(source) ==
  IF ~IsSpdyHandle(SocketHandle(source))
    THEN LET req == Deliver(MarkNotSpdy(RequestOf(source)),
                            [req |-> -1, res |-> -1])
         IN  IF source = 0
               THEN [streams  |-> streams,
                     requests |-> [requests EXCEPT !.raw = req]]
               ELSE [streams  |-> [streams EXCEPT ![source].request = req],
                     requests |-> requests]
    ELSE LET handle == HandleFor(source)
             bound  == [streams EXCEPT ![handle] = Assign(@, source)]
             req    == Deliver(MarkSpdy(RequestOf(source)),
                               bound[source].bound)
         IN  [streams  |-> [bound EXCEPT ![source].request = req],
              requests |-> requests]

\* emit(event, req, res): a 'request' the HTTP layer parsed on a socket
\* that was given to the default listeners, or another event, which goes
\* to its listeners as it is
emit(event, source) ==
  /\ phase = "ready"
  /\ conn.status = "open"
  /\ IF event # "request"
       THEN /\ source = 0
            /\ requests.others = << >>
            /\ requests' = [requests EXCEPT !.others = Append(@, event)]
            /\ UNCHANGED streams
       ELSE /\ ~RequestOf(source).emitted
            /\ IF source = 0 THEN conn.invoked # << >>
                              ELSE streams[source].initial = "seen"
            /\ streams' = EmitRequest(source).streams
            /\ requests' = EmitRequest(source).requests
  /\ UNCHANGED <<phase, args, serverListeners, state, conn, server, engine>>

----------------------------------------------------------------------------
(* The end of streams and of the connection.                               *)

\* the adapter of a stream is told that the stream is gone
TearDown(s) ==
  [s EXCEPT !.live = FALSE, !.teardowns = @ + 1,
            !.socket = [@ EXCEPT !.readable = FALSE, !.writable = FALSE]]

\* one stream ends; the others of its session go on
StreamEnd(i) ==
  /\ conn.status = "open"
  /\ streams[i].live
  /\ streams' = [streams EXCEPT ![i] = [TearDown(@) EXCEPT !.endedEarly = TRUE]]
  /\ UNCHANGED <<phase, args, serverListeners, state, conn, server, engine,
                 requests>>

\* a close that reaches the adapter of the first stream only
CloseSocket_FirstOnly(ss) ==
  [i \in DOMAIN ss |-> IF ss[i].live /\ i = 1 THEN TearDown(ss[i]) ELSE ss[i]]

\* the raw socket closes: the session goes and with it every live stream
CloseSocket(ss) ==
  [i \in DOMAIN ss |-> IF ss[i].live THEN TearDown(ss[i]) ELSE ss[i]]

SocketClose ==
  /\ conn.status = "open"
  /\ conn' = [conn EXCEPT !.status = "closed"]
  /\ streams' = CloseSocket(streams)
  /\ UNCHANGED <<phase, args, serverListeners, state, server, engine, requests>>

\* a write on the adapter of stream i: taken while the adapter is writable
AdapterWrite(i) ==
  /\ streams[i].socket.writable
  /\ ~streams[i].written
  /\ streams' = [streams EXCEPT ![i].written = TRUE,
                                ![i].lateWritten = ~streams[i].live]
  /\ UNCHANGED <<phase, args, serverListeners, state, conn, server, engine,
                 requests>>

----------------------------------------------------------------------------

Next ==
  \/ _init
  \/ \E socket \in Sockets : _onConnection(socket)
  \/ \E socket \in Sockets : _onPlainConnection(socket)
  \/ \E chunk \in Chunks(Len(conn.buffer)) : SocketData(chunk)
  \/ HoseError
  \/ SessionError

Spec == Init /\ [][Next]_vars

----------------------------------------------------------------------------
(* The whole server, streams and requests included, on fewer inputs.       *)

StreamSockets ==
  {[npnProtocol |-> n, alpnProtocol |-> Undefined] :
     n \in (IF args.secure THEN {Undefined, H2, SPDY3, HTTP11}
                           ELSE {Undefined})}

\* the preface in one write or in two, the marker, and the first byte of an
\* HTTP/1 request
StreamChunks ==
  {SubSeq(PREFACE_BUFFER, Len(conn.buffer) + 1, n) : n \in {10, 24}}
    \cup {<<SPDY_MARKER>>, <<71>>}

StreamInit ==
  /\ phase = "new"
  /\ args \in [secure     : BOOLEAN,
               listeners  : {<<"L2", "L1">>},
               plain      : BOOLEAN,
               protocol   : {Undefined, SPDY31},
               connection : {Undefined}]
  /\ serverListeners = args.listeners
  /\ state = [options   |-> [plain |-> FALSE, protocol |-> Undefined,
                             connection |-> Undefined],
              secure    |-> FALSE,
              listeners |-> << >>]
  /\ conn = NoConnection
  /\ \E handler \in BOOLEAN : server = NewServer(handler)
  /\ engine = NoEngine
  /\ streams = << >>
  /\ requests = NoRequests

StreamNext ==
  \/ _init
  \/ \E socket \in StreamSockets : _onConnection(socket)
  \/ \E socket \in StreamSockets : _onPlainConnection(socket)
  \/ \E chunk \in StreamChunks : SocketData(chunk)
  \/ HoseError
  \/ SessionError
  \/ _onStream
  \/ \E source \in 0..Len(streams), event \in {"request", "close"} :
        emit(event, source)
  \/ \E i \in DOMAIN streams : StreamEnd(i)
  \/ \E i \in DOMAIN streams : AdapterWrite(i)
  \/ SocketClose

StreamSpec == StreamInit /\ [][StreamNext]_vars

----------------------------------------------------------------------------
(* Vocabulary of the properties.                                           *)

Last(seq) == seq[Len(seq)]

\* the connection has been through _handleConnection
Dispatched == conn.handled # << >>

\* the sniffer has been run on the connection's bytes
Sniffed == conn.labels # << >>

\* the next-protocol results the socket carries
TlsResults == {conn.socket.npnProtocol, conn.socket.alpnProtocol} \ {Undefined}

\* what the saved listeners, called once each in their order with the raw
\* socket, leave in the record of calls
AllDefaultListenersOnce ==
  [i \in 1..Len(args.listeners) |->
     [listener |-> args.listeners[i], socket |-> RawSocket]]

\* data is the first n bytes of the preface
IsPrefacePrefix(data) ==
  /\ Len(data) <= Len(PREFACE_BUFFER)
  /\ data = SubSeq(PREFACE_BUFFER, 1, Len(data))

\* data begins with the whole preface
HasPreface(data) ==
  /\ Len(data) >= Len(PREFACE_BUFFER)
  /\ SubSeq(data, 1, Len(PREFACE_BUFFER)) = PREFACE_BUFFER

\* data and the preface agree on their first k bytes and differ at the next
DivergesAt(data, k) ==
  /\ k < Len(PREFACE_BUFFER)
  /\ k < Len(data)
  /\ SubSeq(data, 1, k) = SubSeq(PREFACE_BUFFER, 1, k)
  /\ data[k + 1] # PREFACE_BUFFER[k + 1]

----------------------------------------------------------------------------
(* C1 *)

\* C1, as stated: on a secured server, whatever spdy.plain and spdy.protocol
\* are, a connection whose socket carries a next-protocol result is resolved
\* to that result and the sniffer is never run on it.
C1_NegotiatedWinsInEveryConfiguration ==
  (conn.status = "open" /\ state.secure /\ TlsResults # {}) =>
     /\ ~Sniffed
     /\ \A i \in DOMAIN conn.handled : conn.handled[i] \in TlsResults

\* C1, amended: on a secured server whose spdy.plain flag is not set, a
\* connection whose socket carries a next-protocol result is resolved, once
\* and on acceptance, to that result (npnProtocol when set, else
\* alpnProtocol), whatever the default protocol is, and no hose and no run
\* of the sniffer ever exists for it, whatever bytes the client sends.
C1_NegotiatedWinsWithoutPlain ==
  (conn.status = "open" /\ state.secure /\ ~state.options.plain
     /\ TlsResults # {}) =>
     /\ conn.hose = "none"
     /\ ~Sniffed
     /\ Len(conn.handled) = 1
     /\ conn.handled[1] \in TlsResults
     /\ conn.socket.npnProtocol # Undefined =>
          conn.handled[1] = conn.socket.npnProtocol

\* a negotiated spdy/3.1 connection of a server with another default, whose
\* client then sent bytes the sniffer would have labelled http/1.1
C1_Witness ==
  /\ state.secure /\ ~state.options.plain
  /\ state.options.protocol = HTTP11
  /\ conn.socket.alpnProtocol = Undefined
  /\ conn.socket.npnProtocol = SPDY31
  /\ conn.handled = <<SPDY31>>
  /\ conn.buffer # << >>
  /\ hoseFilter(conn.buffer) = HTTP11

----------------------------------------------------------------------------
(* C2 *)

\* C2: every session bootstrapped as the http2 family has had exactly the
\* fixed version pinned (connection.start(4)), whatever identifier resolved
\* to that family, 'h2' in particular.
C2_Http2FamilyPinned ==
  \A i \in DOMAIN conn.sessions :
     conn.sessions[i].options.protocol = HTTP2 =>
        conn.sessions[i].started = <<"4">>

----------------------------------------------------------------------------
(* C3 *)

\* C3: a connection resolved to spdy/3.1, spdy/3 or spdy/2 gets one session
\* of family spdy with exactly one connection.start call, of the matching
\* version; one resolved to another identifier with spdy in it (the
\* sniffer's label) gets one session of family spdy and no start call.
C3_SpdyVersionPinned ==
  Dispatched =>
    LET p == Last(conn.handled) IN
    /\ p \in {SPDY31, SPDY3, SPDY2, SPDY} =>
         /\ Len(conn.sessions) = 1
         /\ conn.sessions[1].options.protocol = SPDY
         /\ conn.sessions[1].options.isServer
         /\ conn.invoked = << >>
    /\ p = SPDY31 => conn.sessions[1].started = <<"3.1">>
    /\ p = SPDY3  => conn.sessions[1].started = <<"3">>
    /\ p = SPDY2  => conn.sessions[1].started = <<"2">>
    /\ p = SPDY   => conn.sessions[1].started = << >>

\* a session pinned to 3.1 for a connection resolved to spdy/3.1
C3_Witness ==
  /\ Dispatched
  /\ Last(conn.handled) = SPDY31
  /\ Len(conn.sessions) = 1
  /\ conn.sessions[1].options.protocol = SPDY
  /\ conn.sessions[1].started = <<"3.1">>

----------------------------------------------------------------------------
(* C4 *)

\* the identifiers of the model that neither contain spdy nor are the
\* preface identifier h2 nor one of the two HTTP/1 identifiers
OutsideRecognizedSet == {HTTP2, H2_14}

\* the connection was governed by a TLS result outside the recognized set
NegotiatedOutsideRecognizedSet ==
  /\ conn.status = "open"
  /\ state.secure /\ ~state.options.plain
  /\ Dispatched
  /\ Or(conn.socket.npnProtocol, conn.socket.alpnProtocol)
       \in OutsideRecognizedSet

----------------------------------------------------------------------------
(* C5 *)

\* the socket carries no next-protocol result
NoTlsResult == TlsResults = {}

\* C5, as stated: without a TLS result, a configured default protocol is the
\* identifier that governs the connection, on plaintext-sniffing servers as
\* on the others; a sniffed label governs only when no default is
\* configured.
C5_DefaultBeforeSniffing ==
  (conn.status = "open" /\ NoTlsResult /\ Dispatched
     /\ state.options.protocol # Undefined) =>
     conn.handled = <<state.options.protocol>>

\* C5, amended: without a TLS result, on a server whose spdy.plain flag is
\* not set the configured default (or nothing, if none is configured) is
\* the identifier that governs the connection and nothing is sniffed; on a
\* plaintext-sniffing server the sniffed label governs every connection,
\* configured default or not.
C5_DefaultOnlyWithoutSniffing ==
  (conn.status = "open" /\ Dispatched) =>
     /\ (~state.options.plain /\ NoTlsResult) =>
           /\ conn.handled = <<state.options.protocol>>
           /\ ~Sniffed
     /\ state.options.plain =>
           /\ Sniffed
           /\ Last(conn.labels) # Undefined
           /\ conn.handled = <<Last(conn.labels)>>

\* a TLS server with default spdy/3.1 and a socket without a next-protocol
\* result: the session is that of the default
C5_Witness ==
  /\ conn.status = "open" /\ NoTlsResult
  /\ state.secure /\ ~state.options.plain
  /\ state.options.protocol = SPDY31
  /\ conn.handled = <<SPDY31>>
  /\ Len(conn.sessions) = 1
  /\ conn.sessions[1].started = <<"3.1">>

----------------------------------------------------------------------------
(* C6 *)

\* C6: a connection resolved to http/1.1, http/1.0 or to no protocol is
\* given, as the raw socket, to every listener saved at construction, once
\* each and in the order of their registration, and gets no session.
C6_PlainGoesToDefaultListeners ==
  (Dispatched /\ Last(conn.handled) \in {HTTP11, HTTP10, Undefined}) =>
     /\ Len(conn.handled) = 1
     /\ state.listeners = args.listeners
     /\ conn.invoked = AllDefaultListenersOnce
     /\ conn.sessions = << >>

\* nothing negotiated and nothing configured: both saved listeners called
C6_Witness ==
  /\ conn.handled = <<Undefined>>
  /\ state.options.protocol = Undefined
  /\ conn.invoked = << [listener |-> "L2", socket |-> RawSocket],
                       [listener |-> "L1", socket |-> RawSocket] >>
  /\ conn.sessions = << >>

----------------------------------------------------------------------------
(* C7 *)

\* C7: for a buffer shorter than the preface whose bytes all equal the
\* preface's (the empty buffer included) the sniffer asks for more bytes
\* and gives no label, and nothing is dispatched on it.
C7_MatchingPrefixNeedsMoreBytes ==
  (Sniffed /\ IsPrefacePrefix(conn.buffer)
     /\ Len(conn.buffer) < Len(PREFACE_BUFFER)) =>
     /\ \A i \in DOMAIN conn.labels : conn.labels[i] = Undefined
     /\ ~Dispatched
     /\ conn.invoked = << >>
     /\ conn.sessions = << >>

\* the sniffer has been run on the first 23 bytes of the preface
C7_Witness ==
  /\ Sniffed
  /\ conn.buffer = SubSeq(PREFACE_BUFFER, 1, Len(PREFACE_BUFFER) - 1)
  /\ Last(conn.labels) = Undefined
  /\ conn.hose = "attached"

----------------------------------------------------------------------------
(* C8 *)

\* C8: a non-empty buffer whose first byte is 0x80 is labelled spdy,
\* whatever its length and its other bytes, and so is each of its
\* extensions.
C8_MarkerIsSpdy ==
  (Sniffed /\ conn.buffer # << >> /\ conn.buffer[1] = 128) =>
     /\ Last(conn.labels) = SPDY
     /\ \A t \in Tails : hoseFilter(conn.buffer \o t) = SPDY

\* the marker followed by another byte, labelled spdy and dispatched so
C8_Witness ==
  /\ Sniffed
  /\ conn.buffer = <<128, 71>>
  /\ Last(conn.labels) = SPDY
  /\ conn.handled = <<SPDY>>

----------------------------------------------------------------------------
(* C9 *)

\* what the claim says of a buffer that first diverges from the preface at
\* position k: it is labelled http/1.1, and so are its first k+1 bytes alone
\* and each of its extensions
FallbackFromFirstDivergence(k) ==
  /\ Last(conn.labels) = HTTP11
  /\ hoseFilter(SubSeq(conn.buffer, 1, k + 1)) = HTTP11
  /\ \A t \in Tails : hoseFilter(conn.buffer \o t) = HTTP11

\* C9, as stated: every byte sequence that first diverges from the preface
\* at a position k below the preface's length is labelled http/1.1, on its
\* first k+1 bytes alone.
C9_DivergenceIsFallback ==
  Sniffed =>
    \A k \in 0..(Len(PREFACE_BUFFER) - 1) :
       DivergesAt(conn.buffer, k) => FallbackFromFirstDivergence(k)

\* C9, amended: every byte sequence whose first byte is not the marker 0x80
\* and that first diverges from the preface at a position k below the
\* preface's length is labelled http/1.1, on its first k+1 bytes alone.
C9_DivergenceWithoutMarkerIsFallback ==
  (Sniffed /\ conn.buffer # << >> /\ conn.buffer[1] # 128) =>
    \A k \in 0..(Len(PREFACE_BUFFER) - 1) :
       DivergesAt(conn.buffer, k) => FallbackFromFirstDivergence(k)

\* ten preface bytes, a byte that differs and one more byte: labelled
\* http/1.1 and given to the default listeners
C9_Witness ==
  /\ Sniffed
  /\ Len(conn.buffer) = 12
  /\ DivergesAt(conn.buffer, 10)
  /\ Last(conn.labels) = HTTP11
  /\ conn.handled = <<HTTP11>>
  /\ conn.invoked # << >>

----------------------------------------------------------------------------
(* C10 *)

\* C10: a buffer that begins with the 24 bytes of the preface, whatever
\* follows them, is labelled h2; every run of the sniffer before that one
\* was on a shorter part of the preface and asked for more bytes, so a
\* preface that arrives in two writes is answered by "more bytes" and then
\* by h2, wherever the split is.
C10_PrefaceIsH2 ==
  Sniffed =>
    /\ HasPreface(conn.buffer) =>
         /\ Last(conn.labels) = H2
         /\ \A i \in 1..(Len(conn.labels) - 1) : conn.labels[i] = Undefined
         /\ conn.handled = <<H2>>
    /\ \A n \in 1..(Len(PREFACE_BUFFER) - 1) :
         conn.buffer = SubSeq(PREFACE_BUFFER, 1, n) =>
            Last(conn.labels) = Undefined

\* the preface received in two writes: more bytes, then h2
C10_Witness ==
  /\ conn.buffer = PREFACE_BUFFER
  /\ conn.labels = <<Undefined, H2>>
  /\ conn.handled = <<H2>>

----------------------------------------------------------------------------
(* C11 *)

\* what the saved listeners, called once each in their order with the
\* adapter of stream i, leave in the stream's record of calls
AdapterGivenToAllListeners(i) ==
  [k \in 1..Len(args.listeners) |->
     [listener |-> args.listeners[k], socket |-> AdapterSocket(i)]]

\* C11: for every stream a session announces, the adapter has been given to
\* all the saved default listeners before the handle is told that the
\* stream's data may flow, so the bytes held at the announcement reach a
\* listener and are never lost.
C11_AdapterRegisteredBeforeData ==
  \A i \in DOMAIN streams :
     /\ streams[i].assigned
     /\ streams[i].invoked = AdapterGivenToAllListeners(i)
     /\ streams[i].readyAfter = Len(args.listeners)
     /\ streams[i].readyAfter > 0
     /\ streams[i].initial = "seen"

\* a stream whose adapter both listeners had before its data flowed
C11_Witness ==
  /\ Len(streams) >= 1
  /\ Len(streams[1].invoked) = 2
  /\ streams[1].readyAfter = 2
  /\ streams[1].initial = "seen"

----------------------------------------------------------------------------
(* C12 *)

\* C12: once the session of a connection has raised 'error', whether
\* before its first stream or with streams alive, the raw socket has been
\* destroyed: no state has an errored session on a socket still open.
C12_SessionErrorDestroysSocket ==
  engine.errored => conn.destroyed

\* an error with two streams alive, the socket destroyed
C12_Witness ==
  /\ engine.errored
  /\ conn.destroyed
  /\ Len(streams) = 2
  /\ streams[1].live /\ streams[2].live

----------------------------------------------------------------------------
(* C13 *)

SpdyResponse ==
  [writeHead |-> "spdy.response", end |-> "spdy.response",
   push |-> "spdy.response"]

\* C13: when a 'request' whose socket is the adapter of stream i reaches
\* the application listeners, each of them once, the request is marked
\* isSpdy with the version its session reports, the response has the three
\* stream-routed methods, and the handle of stream i holds this request and
\* this response; no handle ever holds the pair of another stream.
C13_RequestBoundToItsStream ==
  \A i \in DOMAIN streams :
     /\ streams[i].bound.req \in {-1, i}
     /\ streams[i].bound.res \in {-1, i}
     /\ streams[i].request.emitted =>
          /\ IsSpdyHandle(streams[i].socket._handle)
          /\ streams[i].bound = [req |-> i, res |-> i]
          /\ streams[i].request.isSpdy = "true"
          /\ streams[i].request.spdyVersion = engine.version
          /\ engine.version # "unset"
          /\ conn.sessions[1].started # << >> =>
               engine.version = Last(conn.sessions[1].started)
          /\ Len(streams[i].request.heard) = Len(server.requestListeners)
          /\ \A k \in DOMAIN streams[i].request.heard :
               streams[i].request.heard[k] =
                 [listener    |-> server.requestListeners[k],
                  isSpdy      |-> "true",
                  spdyVersion |-> engine.version,
                  res         |-> SpdyResponse,
                  binding     |-> [req |-> i, res |-> i]]

\* two streams of one session, the request of each heard by the handler
C13_Witness ==
  /\ Len(streams) = 2
  /\ streams[1].request.emitted /\ streams[2].request.emitted
  /\ Len(streams[1].request.heard) = 1
  /\ Len(streams[2].request.heard) = 1
  /\ streams[2].bound = [req |-> 2, res |-> 2]
  /\ streams[1].bound = [req |-> 1, res |-> 1]
  /\ engine.version = "3.1"

----------------------------------------------------------------------------
(* C14 *)

HttpResponse == [writeHead |-> "http", end |-> "http", push |-> "none"]

\* C14: a 'request' whose socket is not a stream adapter is marked isSpdy
\* false and spdyVersion 1, its response keeps its methods, no handle is
\* bound to it, and it reaches each application listener once; an event
\* other than 'request' goes to its listeners and changes no request,
\* no response and no handle.
C14_PlainRequestOnlyMarked ==
  /\ [](/\ \A i \in DOMAIN streams :
             /\ streams[i].bound.req # 0
             /\ streams[i].bound.res # 0
        /\ requests.raw.emitted =>
             /\ requests.raw.isSpdy = "false"
             /\ requests.raw.spdyVersion = "1"
             /\ requests.raw.res = HttpResponse
             /\ Len(requests.raw.heard) = Len(server.requestListeners)
             /\ \A k \in DOMAIN requests.raw.heard :
                  requests.raw.heard[k] =
                    [listener    |-> server.requestListeners[k],
                     isSpdy      |-> "false",
                     spdyVersion |-> "1",
                     res         |-> HttpResponse,
                     binding     |-> [req |-> -1, res |-> -1]])
  /\ [][requests'.others # requests.others =>
          /\ streams' = streams
          /\ requests'.raw = requests.raw]_vars

\* the request of a raw socket, heard once by the handler
C14_Witness ==
  /\ requests.raw.emitted
  /\ requests.raw.isSpdy = "false"
  /\ requests.raw.spdyVersion = "1"
  /\ Len(requests.raw.heard) = 1
  /\ requests.raw.heard[1].listener = "handler"
  /\ requests.others # << >>

----------------------------------------------------------------------------
(* C15 *)

\* C15: construction fails, by the assertion, exactly when the wrapped
\* listener has no default listener on its connection event; when it
\* succeeds that event has one listener, the server's own dispatcher
\* (_onPlainConnection if and only if spdy.plain is set), and the default
\* listeners are saved, in their order, and no longer registered.
C15_ConstructionReplacesListeners ==
  /\ phase = "failed" =>
       /\ args.listeners = << >>
       /\ serverListeners = << >>
  /\ phase = "ready" =>
       /\ args.listeners # << >>
       /\ state.listeners = args.listeners
       /\ Len(serverListeners) = 1
       /\ serverListeners[1] =
            IF args.plain THEN "_onPlainConnection" ELSE "_onConnection"
       /\ \A k \in DOMAIN state.listeners :
            \A j \in DOMAIN serverListeners :
               serverListeners[j] # state.listeners[k]

\* a plaintext-sniffing server built on a base with two default listeners
C15_Witness ==
  /\ phase = "ready"
  /\ args.plain
  /\ serverListeners = <<"_onPlainConnection">>
  /\ state.listeners = <<"L2", "L1">>

\* a construction that failed on a base without default listeners
C15_WitnessFailed ==
  /\ phase = "failed"
  /\ args.listeners = << >>

----------------------------------------------------------------------------
(* C16 *)

\* the streams that are live
Live(ss) == {i \in DOMAIN ss : ss[i].live}

\* C16: the close of the raw socket of a session with N live streams tells
\* each of the N live adapters once that it is torn down, and no other
\* adapter; after the close no adapter accepts a write.
C16_CloseTearsDownEveryLiveStream ==
  /\ [](conn.status = "closed" =>
          \A i \in DOMAIN streams :
             /\ ~streams[i].live
             /\ streams[i].teardowns = 1
             /\ ~streams[i].socket.writable
             /\ ~streams[i].lateWritten)
  /\ [][(conn.status = "open" /\ conn'.status = "closed") =>
          /\ DOMAIN streams' = DOMAIN streams
          /\ \A i \in DOMAIN streams :
               streams'[i].teardowns =
                 streams[i].teardowns + (IF i \in Live(streams) THEN 1 ELSE 0)]_vars
  /\ [][conn.status = "closed" =>
          /\ DOMAIN streams' = DOMAIN streams
          /\ \A i \in DOMAIN streams :
               streams'[i].written = streams[i].written]_vars

\* a closed connection whose session had two streams, one of them ended
\* before the close and one live at the close
C16_Witness ==
  /\ conn.status = "closed"
  /\ Len(streams) = 2
  /\ streams[1].endedEarly
  /\ ~streams[2].endedEarly
  /\ streams[2].teardowns = 1

\* a closed connection whose two streams were both live at the close
C16_WitnessTwoLive ==
  /\ conn.status = "closed"
  /\ Len(streams) = 2
  /\ \A i \in DOMAIN streams : ~streams[i].endedEarly /\ streams[i].teardowns = 1

----------------------------------------------------------------------------
(* C17 *)

\* C17: the adapter socket of every stream, as each default listener
\* received it and before the stream's bytes were let through, is readable,
\* writable, half-open capable and, on a secured parent connection,
\* encrypted; the server has httpAllowHalfOpen from its construction on.
C17_AdapterReadyAtHandover ==
  /\ phase # "new" => server.httpAllowHalfOpen
  /\ \A i \in DOMAIN streams :
       /\ Len(streams[i].invoked) = Len(state.listeners)
       /\ streams[i].readyAfter = Len(streams[i].invoked)
       /\ \A k \in DOMAIN streams[i].invoked :
            /\ IsSpdyHandle(streams[i].invoked[k].socket._handle)
            /\ streams[i].invoked[k].socket._handle.stream = i
            /\ streams[i].invoked[k].socket.readable
            /\ streams[i].invoked[k].socket.writable
            /\ streams[i].invoked[k].socket.allowHalfOpen
            /\ state.secure => streams[i].invoked[k].socket.encrypted

\* a stream of a session on a secured connection, handed to two listeners
C17_Witness ==
  /\ state.secure
  /\ server.httpAllowHalfOpen
  /\ Len(streams) > 0
  /\ Len(streams[1].invoked) = 2
  /\ streams[1].invoked[2].socket.encrypted
  /\ streams[1].invoked[2].socket.readable

----------------------------------------------------------------------------
(* C18 *)

\* bytes that can follow a buffer: none, one or all of the preface bytes
\* after the buffer's length, then a tail
Extensions(b) ==
  LET matched == Min(Len(b), Len(PREFACE_BUFFER)) IN
  {SubSeq(PREFACE_BUFFER, matched + 1, n) \o t :
     n \in {matched, Min(matched + 1, Len(PREFACE_BUFFER)), Len(PREFACE_BUFFER)},
     t \in Tails}

\* C18: on the bytes of a connection the sniffer answers the same when it
\* is asked again; once it has given a definitive label for a buffer it
\* gives that label for every extension of the buffer; so every prefix of
\* the buffer, however the bytes were cut into writes, got no label or the
\* buffer's label.
C18_SniffingIsMonotone ==
  LET b == conn.buffer IN
  /\ (conn.hose # "none" /\ Sniffed) => Last(conn.labels) = hoseFilter(b)
  /\ hoseFilter(b) # Undefined =>
       \A e \in Extensions(b) : hoseFilter(b \o e) = hoseFilter(b)
  /\ \A n \in 0..Len(b) :
       hoseFilter(SubSeq(b, 1, n)) \in {Undefined, hoseFilter(b)}
  /\ \A k \in DOMAIN conn.labels :
       conn.labels[k] \in {Undefined, hoseFilter(b)}

\* the preface arrived in two writes: no label, then 'h2'
C18_Witness ==
  /\ conn.labels = <<Undefined, H2>>
  /\ conn.buffer = PREFACE_BUFFER
  /\ \E e \in Extensions(conn.buffer) : e # << >> /\ hoseFilter(conn.buffer \o e) = H2

\* a divergence labelled in one write, with the marker among its bytes
C18_WitnessOneWrite ==
  /\ conn.labels = <<HTTP11>>
  /\ Len(conn.buffer) > 1
  /\ \E i \in DOMAIN conn.buffer : conn.buffer[i] = SPDY_MARKER

----------------------------------------------------------------------------
(* C19 *)

\* C19: with the plaintext dispatcher a connection goes through
\* _handleConnection at most once, and then the sniffer's last answer on
\* the connection's bytes was a label and every earlier answer was none;
\* after that the sniffer is not asked again.  A connection that sent a
\* strict prefix of the preface and closed, and one whose hose failed,
\* reached neither the default listeners nor a session; the failed hose
\* left the socket destroyed.
C19_PlainDispatchedOnceOnALabel ==
  /\ [](/\ Len(conn.handled) <= 1
        /\ (state.options.plain /\ Dispatched) =>
             /\ conn.hose = "detached"
             /\ Sniffed
             /\ Last(conn.labels) # Undefined
             /\ Last(conn.labels) = hoseFilter(conn.buffer)
             /\ \A k \in 1..(Len(conn.labels) - 1) : conn.labels[k] = Undefined
        /\ (state.options.plain /\ ~Dispatched) =>
             /\ conn.invoked = << >>
             /\ conn.sessions = << >>
             /\ streams = << >>
        /\ (state.options.plain /\ conn.status = "closed"
              /\ IsPrefacePrefix(conn.buffer)
              /\ Len(conn.buffer) < Len(PREFACE_BUFFER)) => ~Dispatched
        /\ (conn.hose = "detached" /\ ~Dispatched) => conn.destroyed)
  /\ [][conn.hose = "detached" =>
          /\ conn'.labels = conn.labels
          /\ conn'.handled = conn.handled]_vars

\* a plaintext connection dispatched on the second answer of the sniffer
C19_Witness ==
  /\ state.options.plain
  /\ conn.labels = <<Undefined, H2>>
  /\ Len(conn.handled) = 1
  /\ conn.hose = "detached"

\* a plaintext connection closed after ten bytes of the preface
C19_WitnessClosedOnPrefix ==
  /\ state.options.plain
  /\ conn.status = "closed"
  /\ conn.buffer = SubSeq(PREFACE_BUFFER, 1, 10)
  /\ ~Dispatched
  /\ ~conn.destroyed

\* a plaintext connection whose hose failed on a prefix of the preface
C19_WitnessHoseError ==
  /\ state.options.plain
  /\ conn.buffer = SubSeq(PREFACE_BUFFER, 1, 10)
  /\ conn.hose = "detached"
  /\ conn.destroyed
  /\ ~Dispatched

----------------------------------------------------------------------------
(* C20 *)

\* the connection went to the saved default listeners and to no session
ToDefaultListeners ==
  /\ conn.invoked = AllDefaultListenersOnce
  /\ conn.sessions = << >>

\* the connection got one session, set up by _handleConnection on the raw
\* socket for the resolved protocol, and went to no default listener
ToOneSession ==
  /\ Len(conn.sessions) = 1
  /\ conn.sessions[1] = CreateSession(RawSocket, Last(conn.handled))
  /\ conn.sessions[1].onError
  /\ conn.sessions[1].onStream
  /\ conn.invoked = << >>

\* C20: a connection that went through _handleConnection either went to
\* the saved default listeners or got exactly one session on its raw
\* socket, never both, and with a session its raw socket went to no default
\* listener.  Stream adapters exist only on a connection that got a
\* session; each was created by a step that found the protocol resolved and
\* the session with its version pin settled and its error observer
\* registered, and what the default listeners were given for it is the
\* adapter, not the raw socket.
C20_DispatchExclusiveAndOrdered ==
  /\ [](/\ Dispatched =>
             /\ Len(conn.handled) = 1
             /\ ToDefaultHandler(Last(conn.handled)) => ToDefaultListeners
             /\ ~ToDefaultHandler(Last(conn.handled)) => ToOneSession
             /\ ~(ToDefaultListeners /\ ToOneSession)
        /\ ~Dispatched =>
             /\ conn.invoked = << >>
             /\ conn.sessions = << >>
        /\ streams # << >> =>
             /\ Dispatched
             /\ ToOneSession
             /\ \A i \in DOMAIN streams :
                  \A k \in DOMAIN streams[i].invoked :
                     /\ IsSpdyHandle(streams[i].invoked[k].socket._handle)
                     /\ streams[i].invoked[k].socket._handle.stream = i
             /\ \A k \in DOMAIN conn.invoked :
                  conn.invoked[k].socket = RawSocket)
  /\ [][Len(streams') > Len(streams) =>
          /\ Dispatched
          /\ ToOneSession
          /\ conn.sessions[1].started = StartCalls(Last(conn.handled))
          /\ conn' = conn]_vars

\* a session pinned to spdy/3 with a stream whose adapter went to both
\* default listeners, the raw socket to none
C20_Witness ==
  /\ conn.handled = <<SPDY3>>
  /\ Len(conn.sessions) = 1
  /\ conn.sessions[1].started = <<"3">>
  /\ conn.invoked = << >>
  /\ Len(streams) > 0
  /\ Len(streams[1].invoked) = 2

\* a connection given to the default listeners: no session, no stream
C20_WitnessDefault ==
  /\ Dispatched
  /\ ToDefaultListeners
  /\ conn.invoked # << >>
  /\ streams = << >>

====
